---- MODULE Spec2Model ----
(***************************************************************************)
(* mockfirestore/transforms.py: the field transforms (ArrayUnion,          *)
(* ArrayRemove, Increment, Maximum, Minimum) and _apply_transformations,   *)
(* which resolves the transforms of an update payload `data` against a     *)
(* `document` and then folds the payload into the document.                *)
(*                                                                         *)
(* Python values are tagged tuples; a str is the sequence of its           *)
(* characters; a dict is a function from str keys to values.               *)
(***************************************************************************)
EXTENDS Integers, Sequences, FiniteSets, TLC

\* How many times the caller calls _apply_transformations.
MaxMerges == 2

----------------------------------------------------------------------------
\* Python values

PyInt(n) == <<"int", n>>
PyStr(s) == <<"str", s>>
PyList(s) == <<"list", s>>
PyDict(f) == <<"dict", f>>
PyNone == <<"NoneType", 0>>
Exc(name) == <<"exc", name>>

Tag(v) == v[1]
IsExc(v) == Tag(v) = "exc"

\* {} and d[k] = v on a dict
EmptyDict == <<>>
Put(f, k, v) == [x \in (DOMAIN f) \cup {k} |-> IF x = k THEN v ELSE f[x]]

\* An instance of one of this module's _Transform subclasses: its class name
\* and its `_value` / `_values` attribute.
TransformObj(cls, operand) == <<"_Transform", cls, operand>>
\* An instance of a class of another library (google.cloud.firestore) with the
\* same class name and the same `value` / `values` attribute: it is not a
\* _Transform, so isinstance(value, _Transform) is false for it.
ForeignObj(cls, operand) == <<"foreign", cls, operand>>

IsObj(v) == Tag(v) \in {"_Transform", "foreign"}
\* value.__class__.__name__
ClassName(v) == IF IsObj(v) THEN v[2] ELSE Tag(v)
\* isinstance(value, _Transform)
IsTransform(v) == Tag(v) = "_Transform"
\* isinstance(x, (int, float))
IsNumber(v) == Tag(v) \in {"int", "float"}
\* isinstance(x, (list, tuple))
IsListOrTuple(v) == Tag(v) \in {"list", "tuple"}

----------------------------------------------------------------------------
\* key.split("."): the str `key` cut at every "."

RECURSIVE SplitFrom(_, _, _)
SplitFrom(rest, cur, acc) ==
    IF rest = <<>> THEN Append(acc, cur)
    ELSE IF Head(rest) = "." THEN SplitFrom(Tail(rest), <<>>, Append(acc, cur))
    ELSE SplitFrom(Tail(rest), Append(cur, Head(rest)), acc)

Split(key) == SplitFrom(key, <<>>, <<>>)

----------------------------------------------------------------------------
\* mockfirestore._helpers

\* get_by_path(data, path): successive key lookups; KeyError when a segment is
\* absent from a mapping, TypeError when a segment is looked up in a value
\* that is no mapping.
RECURSIVE get_by_path(_, _)
get_by_path(obj, path) ==
    IF path = <<>> THEN obj
    ELSE IF Tag(obj) # "dict" THEN Exc("TypeError")
    ELSE IF Head(path) \notin DOMAIN obj[2] THEN Exc("KeyError")
    ELSE get_by_path(obj[2][Head(path)], Tail(path))

\* set_by_path(data, path, value): as get_by_path, but an absent intermediate
\* segment is created as an empty mapping; then the leaf is set.
RECURSIVE set_by_path(_, _, _)
set_by_path(obj, path, value) ==
    IF Tag(obj) # "dict" THEN Exc("TypeError")
    ELSE IF Len(path) = 1 THEN PyDict(Put(obj[2], Head(path), value))
    ELSE LET child == IF Head(path) \in DOMAIN obj[2]
                      THEN obj[2][Head(path)] ELSE PyDict(EmptyDict)
             r == set_by_path(child, Tail(path), value)
         IN IF IsExc(r) THEN r ELSE PyDict(Put(obj[2], Head(path), r))

\* get_document_iterator(document): the (dotted key, leaf) pairs of a payload;
\* nested mappings are descended into, their keys joined with ".".
RECURSIVE get_document_iterator(_, _)
get_document_iterator(f, prefix) ==
    UNION { LET full == IF prefix = <<>> THEN k ELSE prefix \o <<".">> \o k
            IN IF Tag(f[k]) = "dict"
               THEN get_document_iterator(f[k][2], full)
               ELSE {<<full, f[k]>>} : k \in DOMAIN f }

----------------------------------------------------------------------------
\* Python operators used by the transforms

\* a + b
Add(a, b) ==
    IF Tag(a) = "int" /\ Tag(b) = "int" THEN PyInt(a[2] + b[2])
    ELSE IF Tag(a) = "list" /\ Tag(b) = "list" THEN PyList(a[2] \o b[2])
    ELSE Exc("TypeError")

Range(s) == {s[i] : i \in DOMAIN s}
Hashable(v) == Tag(v) \notin {"list", "dict"}

\* set(x) raises TypeError for a value that is not iterable and for an
\* unhashable element.
CanSet(x) ==
    \/ Tag(x) = "list" /\ \A e \in Range(x[2]) : Hashable(e)
    \/ Tag(x) \in {"str", "dict"}

\* set(x): the elements of a list, the characters of a str, the keys of a dict.
SetOf(x) ==
    CASE Tag(x) = "list" -> Range(x[2])
      [] Tag(x) = "str" -> {PyStr(<<c>>) : c \in Range(x[2])}
      [] Tag(x) = "dict" -> {PyStr(k) : k \in DOMAIN x[2]}

\* list(s) for a set s: its elements once each, in the set's iteration order,
\* which the language leaves open.
ListsOf(S) ==
    {PyList(q) : q \in {p \in [1..Cardinality(S) -> S] : Range(p) = S}}

\* max(a, b) and min(a, b) of two numbers
Max(a, b) == IF b[2] > a[2] THEN b ELSE a
Min(a, b) == IF b[2] < a[2] THEN b ELSE a

----------------------------------------------------------------------------
\* The transforms.  `self` is a TransformObj; self[3] is self.value or
\* self.values.

\* _ValueList.__init__ without the emptiness test.
ValueList_init_any_length(values) ==
    IF ~IsListOrTuple(values) THEN Exc("ValueError")
    ELSE PyList(values[2])

\* _ValueList.__init__(values): what self._values becomes, or the exception.
ValueList_init(values) ==
    IF ~IsListOrTuple(values) THEN Exc("ValueError")
    ELSE IF Len(values[2]) = 0 THEN Exc("ValueError")
    ELSE PyList(values[2])

\* _NumericValue.__init__(value): what self._value becomes, or the exception.
NumericValue_init(value) ==
    IF ~IsNumber(value) THEN Exc("ValueError")
    ELSE value

ListClasses == {"ArrayUnion", "ArrayRemove"}
NumericClasses == {"Increment", "Maximum", "Minimum"}

\* cls(arg): the constructed instance, or the exception of its __init__.
New(cls, arg) ==
    LET a == IF cls \in ListClasses THEN ValueList_init(arg) ELSE NumericValue_init(arg)
    IN IF IsExc(a) THEN a ELSE TransformObj(cls, a)

\* except KeyError
Caught_key_error_only(r) == IsExc(r) /\ r[2] = "KeyError"

\* except (TypeError, KeyError)
Caught(r) == IsExc(r) /\ r[2] \in {"TypeError", "KeyError"}

\* ArrayUnion appending only the values the list does not hold yet.
ArrayUnion_call_missing_only(self, document, path) ==
    LET r == get_by_path(PyDict(document), path)
        item == IF Caught(r) THEN PyList(<<>>) ELSE r
    IN IF Tag(item) # "list" THEN {Exc("TypeError")}
       ELSE {PyList(item[2] \o SelectSeq(self[3][2], LAMBDA e : e \notin Range(item[2])))}

ArrayUnion_call(self, document, path) ==
    LET r == get_by_path(PyDict(document), path)
        item == IF Caught(r) THEN PyList(<<>>) ELSE r
    IN IF IsExc(item) THEN {item}
       ELSE {Add(item, self[3])}

\* ArrayRemove dropping the duplicates of the list but none of self.values.
ArrayRemove_call_no_difference(self, document, path) ==
    LET r == get_by_path(PyDict(document), path)
        item == IF Caught(r) THEN PyList(<<>>) ELSE r
    IN IF ~CanSet(item) THEN {Exc("TypeError")}
       ELSE ListsOf(SetOf(item))

ArrayRemove_call(self, document, path) ==
    LET r == get_by_path(PyDict(document), path)
        item == IF Caught(r) THEN PyList(<<>>) ELSE r
    IN IF IsExc(item) THEN {item}
       ELSE IF ~CanSet(item) \/ ~CanSet(self[3]) THEN {Exc("TypeError")}
       ELSE ListsOf(SetOf(item) \ SetOf(self[3]))

Increment_call(self, document, path) ==
    LET r == get_by_path(PyDict(document), path)
        item == IF Caught(r) THEN PyInt(0) ELSE r
    IN IF IsExc(item) THEN {item}
       ELSE {Add(item, self[3])}

\* Maximum that never compares.
Maximum_call_overwrite(self, document, path) == {self[3]}

Maximum_call(self, document, path) ==
    LET r == get_by_path(PyDict(document), path)
        exists == ~Caught(r)
    IN IF IsExc(r) /\ exists THEN {r}
       ELSE IF exists /\ IsNumber(r) THEN {Max(r, self[3])}
       ELSE {self[3]}

Minimum_call(self, document, path) ==
    LET r == get_by_path(PyDict(document), path)
        exists == ~Caught(r)
    IN IF IsExc(r) /\ exists THEN {r}
       ELSE IF exists /\ IsNumber(r) THEN {Min(r, self[3])}
       ELSE {self[3]}

\* value(document, path): the values the call may return (one, but for the
\* order of ArrayRemove's list), or the exception it raises.
Call(value, document, path) ==
    CASE value[2] = "ArrayUnion" -> ArrayUnion_call(value, document, path)
      [] value[2] = "ArrayRemove" -> ArrayRemove_call(value, document, path)
      [] value[2] = "Increment" -> Increment_call(value, document, path)
      [] value[2] = "Maximum" -> Maximum_call(value, document, path)
      [] value[2] = "Minimum" -> Minimum_call(value, document, path)

----------------------------------------------------------------------------
\* _apply_transformations(document, data)

\* set_by_path(document, path, value): the result written into the document.
Stage_in_document(document, data, path, value) ==
    LET w == set_by_path(PyDict(document), path, value)
    IN IF IsExc(w) THEN w ELSE <<"ok", w[2], data>>

\* set_by_path(data, path, value) as _apply_transformations calls it: the two
\* dictionaries after it, or the exception.
Stage(document, data, path, value) ==
    LET w == set_by_path(PyDict(data), path, value)
    IN IF IsExc(w) THEN w ELSE <<"ok", document, w[2]>>

\* One iteration of the loop over get_document_iterator(data): what the two
\* dictionaries and the two auxiliary mappings are after it, and the exception
\* that left it, if any.  One outcome for each value the call may return.
LoopBody(document, data, increments, arr_unions, key, value) ==
    LET path == Split(key)
        rets == IF IsTransform(value) THEN Call(value, document, path) ELSE {PyNone}
        transformer == ClassName(value)
    IN { LET staged == IF ~IsTransform(value) THEN <<"ok", document, data>>
                       ELSE IF IsExc(r) THEN r
                       ELSE Stage(document, data, path, r)
         IN IF IsExc(staged)
            THEN [raised |-> staged[2], document |-> document, data |-> data,
                  increments |-> increments, arr_unions |-> arr_unions]
            ELSE [raised |-> "none", document |-> staged[2], data |-> staged[3],
                  increments |-> IF transformer = "Increment"
                                 THEN Put(increments, key, value[3]) ELSE increments,
                  arr_unions |-> IF transformer = "ArrayUnion"
                                 THEN Put(arr_unions, key, value[3]) ELSE arr_unions]
         : r \in rets }

\* _update_data_with_firestore_transforms that never reads the document.
UpdateBody_default_only(document, data, key, value, default) ==
    LET staged == Stage(document, data, Split(key), Add(default, value))
    IN IF IsExc(staged)
       THEN [raised |-> staged[2], document |-> document, data |-> data]
       ELSE [raised |-> "none", document |-> staged[2], data |-> staged[3]]

\* _update_data_with_firestore_transforms adding only what the list lacks.
UpdateBody_missing_only(document, data, key, value, default) ==
    LET r == get_by_path(PyDict(document), Split(key))
        item == IF Caught(r) THEN default ELSE r
        sum == IF Tag(item) = "list" /\ Tag(value) = "list"
               THEN PyList(item[2] \o SelectSeq(value[2], LAMBDA e : e \notin Range(item[2])))
               ELSE Add(item, value)
        staged == IF IsExc(sum) THEN sum ELSE Stage(document, data, Split(key), sum)
    IN IF IsExc(staged)
       THEN [raised |-> staged[2], document |-> document, data |-> data]
       ELSE [raised |-> "none", document |-> staged[2], data |-> staged[3]]

\* One iteration of _update_data_with_firestore_transforms(new_values, default).
UpdateBody(document, data, key, value, default) ==
    LET path == Split(key)
        r == get_by_path(PyDict(document), path)
        item == IF Caught(r) THEN default ELSE r
        sum == IF IsExc(item) THEN item ELSE Add(item, value)
        staged == IF IsExc(sum) THEN sum ELSE Stage(document, data, path, sum)
    IN IF IsExc(staged)
       THEN [raised |-> staged[2], document |-> document, data |-> data]
       ELSE [raised |-> "none", document |-> staged[2], data |-> staged[3]]

\* new_values.items()
Items(new_values) == {<<k, new_values[k]>> : k \in DOMAIN new_values}

\* A deep merge: a mapping of data is merged into the document's mapping.
dict_update_deep(document, data) ==
    [k \in (DOMAIN document) \cup (DOMAIN data) |->
        IF k \notin DOMAIN data THEN document[k]
        ELSE IF k \in DOMAIN document /\ Tag(document[k]) = "dict" /\ Tag(data[k]) = "dict"
        THEN PyDict([j \in (DOMAIN document[k][2]) \cup (DOMAIN data[k][2]) |->
                        IF j \in DOMAIN data[k][2] THEN data[k][2][j] ELSE document[k][2][j]])
        ELSE data[k]]

\* document.update(data)
dict_update(document, data) ==
    [k \in (DOMAIN document) \cup (DOMAIN data) |->
        IF k \in DOMAIN data THEN data[k] ELSE document[k]]

----------------------------------------------------------------------------
\* The caller's documents and payloads

kc == <<"c">>
kt == <<"t">>
ka == <<"a">>
kb == <<"b">>
kd == <<"d">>
kab == <<"a", ".", "b">>

x == PyStr(<<"x">>)
y == PyStr(<<"y">>)
z == PyStr(<<"z">>)

Doc1(k1, v1) == Put(EmptyDict, k1, v1)
Doc2(k1, v1, k2, v2) == Put(Doc1(k1, v1), k2, v2)
Doc3(k1, v1, k2, v2, k3, v3) == Put(Doc2(k1, v1, k2, v2), k3, v3)

\* The documents a merge may start from.
InitDocs ==
    { EmptyDict,
      Doc2(kc, PyInt(1), kt, PyList(<<x>>)),
      Doc3(kc, PyInt(3), kt, PyList(<<x, y, z>>), ka, PyDict(Doc2(kb, PyInt(1), kd, PyInt(3)))),
      Doc2(ka, PyInt(1), kt, PyList(<<y, x, y>>)),
      Doc3(kc, PyList(<<x>>), kt, PyInt(3), ka, PyDict(Doc2(kb, x, kd, PyInt(1)))) }

\* Where the caller puts a leaf in the payload: a top-level key, a dotted
\* top-level key, or a key of a nested mapping.
Slots == { <<kc>>, <<kt>>, <<kab>>, <<ka, kb>> }

Classes == ListClasses \cup NumericClasses

\* What the caller passes to a constructor.
RawOperands == { PyInt(2), PyList(<<y>>), PyList(<<>>), x, PyNone }

\* The other leaves of a payload: literal values and the transforms of the
\* google.cloud.firestore library.
OtherLeaves ==
    { PyInt(7), ForeignObj("Increment", PyInt(2)), ForeignObj("ArrayUnion", PyList(<<y>>)) }

\* One entry of the payload the caller writes down: the leaf `make(arg)` at
\* `slot`; make = "value" stands for the leaf `arg` itself.
Entry(slot, make, arg) == [slot |-> slot, make |-> make, arg |-> arg]

\* The payloads the caller writes down: every payload of one entry, and some
\* of two.
Requests ==
    { <<Entry(slot, cls, raw)>> : slot \in Slots, cls \in Classes, raw \in RawOperands }
    \cup { <<Entry(slot, "value", leaf)>> : slot \in Slots \cup {<<ka>>}, leaf \in OtherLeaves }
    \cup { <<Entry(<<kc>>, "Increment", PyInt(2)), Entry(<<kt>>, "ArrayUnion", PyList(<<y>>))>>,
           <<Entry(<<kc>>, "Maximum", PyInt(2)), Entry(<<kt>>, "ArrayRemove", PyList(<<y>>))>>,
           <<Entry(<<kab>>, "Minimum", PyInt(2)), Entry(<<kt>>, "ArrayUnion", PyList(<<x>>))>>,
           <<Entry(<<kab>>, "Increment", PyInt(2)), Entry(<<ka>>, "value", PyInt(7))>>,
           <<Entry(<<kc>>, "value", ForeignObj("Increment", PyInt(2))),
             Entry(<<kt>>, "value", ForeignObj("ArrayUnion", PyList(<<y>>)))>>,
           <<Entry(<<ka, kb>>, "Increment", PyInt(2)), Entry(<<kc>>, "ArrayUnion", PyList(<<>>))>>,
           <<Entry(<<kab>>, "Maximum", PyInt(5))>> }

Paths(f) == {Split(e[1]) : e \in get_document_iterator(f, <<>>)}

\* The payload with `leaf` put at `slot` is a payload of one more entry in
\* which no two entries address the same path.
CanPlace(f, slot, leaf) ==
    LET w == set_by_path(PyDict(f), slot, leaf)
    IN /\ ~IsExc(w)
       /\ Cardinality(get_document_iterator(w[2], <<>>))
            = Cardinality(get_document_iterator(f, <<>>)) + 1
       /\ Cardinality(Paths(w[2])) = Cardinality(get_document_iterator(w[2], <<>>))

\* Evaluating the payload the caller wrote down, entry by entry: the dict, or
\* the exception of the first constructor that raises.
RECURSIVE Evaluate(_, _)
Evaluate(entries, f) ==
    IF entries = <<>> THEN PyDict(f)
    ELSE LET e == Head(entries)
             leaf == IF e.make = "value" THEN e.arg ELSE New(e.make, e.arg)
         IN IF IsExc(leaf) THEN leaf
            ELSE Evaluate(Tail(entries), set_by_path(PyDict(f), e.slot, leaf)[2])

RECURSIVE WellFormed(_, _)
WellFormed(entries, f) ==
    IF entries = <<>> THEN TRUE
    ELSE LET e == Head(entries)
             leaf == IF e.make = "value" THEN e.arg ELSE New(e.make, e.arg)
         IN IF IsExc(leaf) THEN TRUE
            ELSE /\ CanPlace(f, e.slot, leaf)
                 /\ WellFormed(Tail(entries), set_by_path(PyDict(f), e.slot, leaf)[2])

----------------------------------------------------------------------------
VARIABLES
    document,     \* the document, a dict
    data,         \* the payload, a dict
    pc,           \* "idle": the caller has no payload; "ready": it has one;
                  \* "rejected": a constructor raised;
                  \* "pass1", "increments", "arr_unions": inside
                  \* _apply_transformations; "done": it returned or raised
    iter,         \* what the running loop has still to visit
    increments,   \* dotted key -> operand of the Increment found there
    arr_unions,   \* dotted key -> operand of the ArrayUnion found there
    raised,       \* the exception the last operation raised, or "none"
    merges,       \* calls of _apply_transformations so far
    doc0,         \* document when the current (or last) call began
    data0,        \* data when the current (or last) call began
    prev,         \* doc0, data0, document and raised of the call before
    request       \* the payload the caller last wrote down

vars == <<document, data, pc, iter, increments, arr_unions, raised, merges, doc0, data0,
          prev, request>>

Init ==
    /\ document \in InitDocs
    /\ data = EmptyDict
    /\ pc = "idle"
    /\ iter = {}
    /\ increments = EmptyDict
    /\ arr_unions = EmptyDict
    /\ raised = "none"
    /\ merges = 0
    /\ doc0 = document
    /\ data0 = EmptyDict
    /\ prev = <<EmptyDict, EmptyDict, EmptyDict, "none">>
    /\ request = <<>>

\* The caller writes down a payload: its constructors run, and the payload
\* exists if none of them raises.
Build(entries) ==
    /\ pc = "idle"
    /\ merges < MaxMerges
    /\ WellFormed(entries, EmptyDict)
    /\ request' = entries
    /\ LET r == Evaluate(entries, EmptyDict)
       IN IF IsExc(r)
          THEN /\ raised' = r[2]
               /\ data' = EmptyDict
               /\ pc' = "rejected"
          ELSE /\ raised' = "none"
               /\ data' = r[2]
               /\ pc' = "ready"
    /\ UNCHANGED <<document, iter, increments, arr_unions, merges, doc0, data0, prev>>

\* The caller handles the constructor's exception: there is no payload.
Recover ==
    /\ pc = "rejected"
    /\ pc' = "idle"
    /\ raised' = "none"
    /\ request' = <<>>
    /\ UNCHANGED <<document, data, iter, increments, arr_unions, merges, doc0, data0, prev>>

\* _apply_transformations(document, data) is called.  The entries of the
\* payload are those it holds at the call; any order of visiting them is some
\* insertion order of the payload's keys.
Begin ==
    /\ pc = "ready"
    /\ pc' = "pass1"
    /\ increments' = EmptyDict
    /\ arr_unions' = EmptyDict
    /\ iter' = get_document_iterator(data, <<>>)
    /\ merges' = merges + 1
    /\ raised' = "none"
    /\ doc0' = document
    /\ data0' = data
    /\ UNCHANGED <<document, data, prev, request>>

\* for key, value in get_document_iterator(data): ...
Pass1Step ==
    /\ pc = "pass1"
    /\ \E e \in iter :
         \E o \in LoopBody(document, data, increments, arr_unions, e[1], e[2]) :
            /\ document' = o.document
            /\ data' = o.data
            /\ increments' = o.increments
            /\ arr_unions' = o.arr_unions
            /\ raised' = o.raised
            /\ IF o.raised = "none"
               THEN pc' = pc /\ iter' = iter \ {e}
               ELSE pc' = "done" /\ iter' = {}
    /\ UNCHANGED <<merges, doc0, data0, prev, request>>

\* _update_data_with_firestore_transforms(increments, 0) is called.
Pass1Done ==
    /\ pc = "pass1"
    /\ iter = {}
    /\ pc' = "increments"
    /\ iter' = Items(increments)
    /\ UNCHANGED <<document, data, increments, arr_unions, raised, merges, doc0, data0, prev, request>>

IncrementsStep ==
    /\ pc = "increments"
    /\ \E e \in iter :
         LET o == UpdateBody(document, data, e[1], e[2], PyInt(0))
         IN /\ document' = o.document
            /\ data' = o.data
            /\ raised' = o.raised
            /\ IF o.raised = "none"
               THEN pc' = pc /\ iter' = iter \ {e}
               ELSE pc' = "done" /\ iter' = {}
    /\ UNCHANGED <<increments, arr_unions, merges, doc0, data0, prev, request>>

\* _update_data_with_firestore_transforms(arr_unions, []) is called.
IncrementsDone ==
    /\ pc = "increments"
    /\ iter = {}
    /\ pc' = "arr_unions"
    /\ iter' = Items(arr_unions)
    /\ UNCHANGED <<document, data, increments, arr_unions, raised, merges, doc0, data0, prev, request>>

ArrUnionsStep ==
    /\ pc = "arr_unions"
    /\ \E e \in iter :
         LET o == UpdateBody(document, data, e[1], e[2], PyList(<<>>))
         IN /\ document' = o.document
            /\ data' = o.data
            /\ raised' = o.raised
            /\ IF o.raised = "none"
               THEN pc' = pc /\ iter' = iter \ {e}
               ELSE pc' = "done" /\ iter' = {}
    /\ UNCHANGED <<increments, arr_unions, merges, doc0, data0, prev, request>>

\* document.update(data), and the function returns.
Update ==
    /\ pc = "arr_unions"
    /\ iter = {}
    /\ document' = dict_update(document, data)
    /\ pc' = "done"
    /\ UNCHANGED <<data, iter, increments, arr_unions, raised, merges, doc0, data0, prev, request>>

\* The caller drops the payload and starts the next one.
NextPayload ==
    /\ pc = "done"
    /\ merges < MaxMerges
    /\ pc' = "idle"
    /\ data' = EmptyDict
    /\ prev' = <<doc0, data0, document, raised>>
    /\ request' = <<>>
    /\ UNCHANGED <<document, iter, increments, arr_unions, raised, merges, doc0, data0>>

Next ==
    \/ \E entries \in Requests : Build(entries)
    \/ Recover
    \/ Begin
    \/ Pass1Step
    \/ Pass1Done
    \/ IncrementsStep
    \/ IncrementsDone
    \/ ArrUnionsStep
    \/ Update
    \/ NextPayload

Spec == Init /\ [][Next]_vars

----------------------------------------------------------------------------
\* Properties

\* The entries of the payload as the call received it.
Entries0 == get_document_iterator(data0, <<>>)
\* The value at dotted key `key` of dict f.
At(f, key) == get_by_path(PyDict(f), Split(key))
\* _apply_transformations returned without an exception.
Returned == pc = "done" /\ raised = "none"
\* _apply_transformations is running.
Inside == pc \in {"pass1", "increments", "arr_unions"}
\* The first loop has visited entry e and gone on.
Applied(e) == (pc = "pass1" /\ e \notin iter) \/ pc \in {"increments", "arr_unions"} \/ Returned
IsA(v, cls) == IsTransform(v) /\ v[2] = cls
Named(v, cls) == IsObj(v) /\ v[2] = cls

ExampleDoc == Doc2(kc, PyInt(1), kt, PyList(<<x>>))
ExamplePayload ==
    Doc2(kc, TransformObj("Increment", PyInt(2)), kt, TransformObj("ArrayUnion", PyList(<<y>>)))
ExampleMerged == Doc2(kc, PyInt(3), kt, PyList(<<x, y>>))

\* C1: after a merge, the document's value at the path of an Increment(n) is
\* n when the path could not be read in the document before the merge and
\* c + n when it held the number c; {c: 1, t: [x]} merged with
\* {c: Increment(2), t: ArrayUnion([y])} is exactly {c: 3, t: [x, y]}.
C1_IncrementMerged ==
    Returned =>
        /\ \A e \in Entries0 :
             Named(e[2], "Increment") =>
                LET c == At(doc0, e[1])
                    n == e[2][3][2]
                IN /\ IsExc(c) => At(document, e[1]) = PyInt(n)
                   /\ Tag(c) = "int" => At(document, e[1]) = PyInt(c[2] + n)
        /\ (doc0 = ExampleDoc /\ data0 = ExamplePayload) => document = ExampleMerged

C1_Witness ==
    /\ Returned
    /\ doc0 = ExampleDoc
    /\ data0 = ExamplePayload
    /\ document = ExampleMerged

\* C2: merging {"a.b": Maximum(5)} into {} gives exactly {a: {b: 5}}; and for
\* any dotted key whose path is absent from the document, the merged document
\* has no literal dotted key and holds no transform.
C2_DottedKeyResolved ==
    Returned =>
        /\ (doc0 = EmptyDict /\ data0 = Doc1(kab, TransformObj("Maximum", PyInt(5))))
              => document = Doc1(ka, PyDict(Doc1(kb, PyInt(5))))
        /\ \A k \in DOMAIN data0 :
              (Len(Split(k)) > 1 /\ IsTransform(data0[k]) /\ IsExc(At(doc0, k)))
                 => /\ k \notin DOMAIN document
                    /\ \A e \in get_document_iterator(document, <<>>) : ~IsTransform(e[2])

\* What Maximum(n) / Minimum(n) is to return for the current value c.
Bounded(cls, c, n) ==
    IF Tag(c) # "int" THEN n
    ELSE IF cls = "Maximum" THEN (IF c[2] >= n[2] THEN c ELSE n)
    ELSE (IF c[2] <= n[2] THEN c ELSE n)

\* C3: the value Maximum(n) yields at a path is max(c, n) when the document
\* holds the number c there and n when the path is absent or holds a value that
\* is no number; Minimum likewise with min.  The value is what the payload
\* holds at the path once the instruction is applied, and what the document
\* holds there after the merge.
C3_MaximumMinimumResult ==
    \A e \in Entries0 :
        (IsA(e[2], "Maximum") \/ IsA(e[2], "Minimum")) =>
            LET want == Bounded(e[2][2], At(doc0, e[1]), e[2][3])
            IN /\ Applied(e) => At(data, e[1]) = want
               /\ Returned => At(document, e[1]) = want

C3_Witness ==
    /\ Returned
    /\ At(doc0, kc) = PyList(<<x>>)
    /\ data0 = Doc1(kc, TransformObj("Maximum", PyInt(2)))
    /\ At(document, kc) = PyInt(2)

\* The list at `key` of doc, an unreadable path counting as the empty list.
Prior(doc, key) == IF IsExc(At(doc, key)) THEN <<>> ELSE At(doc, key)[2]

C5_ArrayRemoveDifference ==
    \A e \in Entries0 :
        IsA(e[2], "ArrayRemove") =>
            LET c == At(doc0, e[1])
                v == e[2][3][2]
                ok(r) == /\ IsExc(c) => r = PyList(<<>>)
                         /\ Tag(c) = "list" =>
                               Tag(r) = "list" /\ Range(r[2]) = Range(c[2]) \ Range(v)
            IN /\ Applied(e) => ok(At(data, e[1]))
               /\ Returned => ok(At(document, e[1]))

C5_Witness ==
    /\ Returned
    /\ At(doc0, kt) = PyList(<<x, y, z>>)
    /\ data0 = Doc1(kt, TransformObj("ArrayRemove", PyList(<<y>>)))
    /\ At(document, kt) = PyList(<<z, x>>)

\* The entries whose path runs, in the document, through a value that is no
\* mapping.
Blocked == {e \in Entries0 : IsTransform(e[2]) /\ At(doc0, e[1]) = Exc("TypeError")}

\* C6 as stated: a merge with an instruction whose path runs through a
\* non-mapping of the document fails with TypeError.
C6_NonMappingAborts ==
    (pc = "done" /\ Blocked # {}) => raised = "TypeError"

\* What each transform yields for an absent path.
AbsentDefault(v) == IF v[2] = "ArrayRemove" THEN PyList(<<>>) ELSE v[3]

\* C6 amended: an instruction whose path runs through a non-mapping of the
\* document yields its absent-path default, and a payload of that one
\* instruction is merged without an exception.
C6_NonMappingAbsorbed ==
    \A e \in Blocked :
        /\ Applied(e) => At(data, e[1]) = AbsentDefault(e[2])
        /\ (pc = "done" /\ Cardinality(Entries0) = 1)
              => raised = "none" /\ At(document, e[1]) = AbsentDefault(e[2])

C6_Witness ==
    /\ Returned
    /\ At(doc0, ka) = PyInt(1)
    /\ data0 = Doc1(kab, TransformObj("Increment", PyInt(2)))
    /\ At(document, ka) = PyDict(Doc1(kb, PyInt(2)))

\* C7: after a merge the document holds, at every top-level key of the resolved
\* payload, the payload's value in full, and at every other key its value from
\* before the merge.
C7_ShallowMerge ==
    Returned =>
        /\ DOMAIN document = (DOMAIN doc0) \cup (DOMAIN data)
        /\ \A k \in DOMAIN data : document[k] = data[k]
        /\ \A k \in (DOMAIN doc0) \ (DOMAIN data) : document[k] = doc0[k]

C7_Witness ==
    /\ Returned
    /\ At(doc0, ka) = PyDict(Doc2(kb, PyInt(1), kd, PyInt(3)))
    /\ data0 = Doc1(ka, PyDict(Doc1(kb, TransformObj("Increment", PyInt(2)))))
    /\ At(document, ka) = PyDict(Doc1(kb, PyInt(3)))
    /\ At(document, kc) = doc0[kc]

\* A constructor call of the caller that is to fail.
BadEntry(e) ==
    \/ e.make \in ListClasses /\ (Tag(e.arg) # "list" \/ e.arg[2] = <<>>)
    \/ e.make \in NumericClasses /\ Tag(e.arg) # "int"
GoodOperand(v) ==
    IF v[2] \in ListClasses THEN Tag(v[3]) = "list" /\ v[3][2] # <<>>
    ELSE Tag(v[3]) = "int"

\* C8: a payload written with an empty or non-list operand for ArrayUnion /
\* ArrayRemove, or a non-numeric operand for Increment / Maximum / Minimum,
\* raises ValueError and never exists; no transform of a payload has such an
\* operand.
C8_InvalidOperandRejected ==
    /\ (\E i \in DOMAIN request : BadEntry(request[i]))
          => pc = "rejected" /\ raised = "ValueError" /\ data = EmptyDict
    /\ \A e \in get_document_iterator(data, <<>>) \cup Entries0 :
          IsTransform(e[2]) => GoodOperand(e[2])

C8_Witness ==
    /\ pc = "rejected"
    /\ raised = "ValueError"
    /\ request = <<Entry(<<kt>>, "ArrayUnion", PyList(<<>>))>>
    /\ data = EmptyDict

\* C9: while _apply_transformations runs, and after it raised, the document is
\* the document the call received.
C9_DocumentUntouched ==
    /\ Inside => document = doc0
    /\ (pc = "done" /\ raised # "none") => document = doc0

C9_Witness ==
    /\ pc = "done"
    /\ raised = "TypeError"
    /\ Cardinality(Entries0) = 2
    /\ data # data0
    /\ doc0 # EmptyDict
    /\ document = doc0

\* C10 as stated: for every payload, no step of the second pass changes the
\* payload or raises.
SecondPassKeeps == data' = data /\ raised' = raised
C10_SecondPassRedundant ==
    [][(pc \in {"increments", "arr_unions"}) => SecondPassKeeps]_vars

\* C10 amended: for a payload without transforms of another library, no step
\* of the second pass changes the payload or raises.
C10_SecondPassRedundantForOwnTransforms ==
    [][(pc \in {"increments", "arr_unions"} /\ \A e \in Entries0 : Tag(e[2]) # "foreign")
          => SecondPassKeeps]_vars

C10_Witness ==
    /\ pc = "arr_unions"
    /\ iter = {}
    /\ doc0 = ExampleDoc
    /\ data0 = ExamplePayload
    /\ DOMAIN increments = {kc}
    /\ DOMAIN arr_unions = {kt}
    /\ data = ExampleMerged

====
